---- MODULE Spec2Model ----
(***************************************************************************)
(* Progress & achievement scoring engine of the yuldagilar backend.        *)
(*                                                                         *)
(* The repository holds two revisions of the task controller (both in      *)
(* src/unnamed/part_008: lines 1-518 and lines 519-1131) and the           *)
(* AchievementService of src/src/services/achievementService.js.  The      *)
(* revision of the task controller that is deployed is fixed at start-up   *)
(* (variable revision).  The server's own clock runs in UTC; a calendar    *)
(* date is a day number, an instant is (now, hour) in UTC.                 *)
(***************************************************************************)
EXTENDS Integers, Sequences, FiniteSets, TLC

VARIABLES
    now,             \* UTC day number of the current instant
    hour,            \* UTC hour of the current instant
    revision,        \* deployed task controller revision: "v1" or "v2"
    users,           \* table users: tg_id -> row or NoUser
    daily_progress,  \* table daily_progress: a set of rows
    reqs,            \* in-flight requests: request id -> request state
    last,            \* what the writing handler that finished last answered
    out,             \* what the reading handler answered, NoOut once the state moved on
    odd              \* number of non-routine events so far

vars == <<now, hour, revision, users, daily_progress, reqs, last, out, odd>>

----------------------------------------------------------------------------
(* Bounds of the model *)

MaxDay == 22
RoutineDays == 20
MaxLongDay == 62
MaxLongOdd == 1
MaxShortDay == 1
MaxSubmits == 2
MaxStreakRun == 33

(* Program constants *)

NumTasks == 10
StreakThreshold == 21
ReaderThreshold == 6000
AthleteThresholdKm == 100
MaxPagesRead == 10000
MaxDistanceKm == 1000
TC1_HistoryLimit == 30
TC1_HighActivity == 8
TC2_HistoryLimit == 60
AS_HistoryDays == 60
AS_CheckDays == 60
AS_StreakIndexCap == 30
CU_StreakDays == 30

----------------------------------------------------------------------------
(* Data *)

UserIds == {1, 2, 3}
ReqIds == {1, 2}
AchievementIds == {"consistent", "reader", "athlete", "early_bird", "perfectionist"}
NoTz == "no_tz"

(* A field of a request is <<v>> when sent and <<>> when left out. *)
Undef == << >>
Sent(v) == <<v>>

NoUser == [exists |-> FALSE, is_approved |-> FALSE, achievements |-> {}]
NoRow == [exists |-> FALSE]

TaskIdx == 1..NumTasks

AllOnes == [i \in TaskIdx |-> 1]
AllZero == [i \in TaskIdx |-> 0]
OnlyTask9 == [i \in TaskIdx |-> IF i = 9 THEN 1 ELSE 0]
AllButTask9 == [i \in TaskIdx |-> IF i = 9 THEN 0 ELSE 1]
BadFlag == [i \in TaskIdx |-> IF i = 3 THEN 2 ELSE 1]

(* A request body: ten flags, pages_read, distance_km in 1/100 km, each a   *)
(* field that was sent.                                                      *)
MkBody(f, p, d) ==
    [flags |-> [i \in TaskIdx |-> Sent(f[i])], pages_read |-> Sent(p), distance |-> Sent(d)]

(* the same body with tasks 6..10 left out of the request *)
MkPartialBody(f, p, d) ==
    [flags |-> [i \in TaskIdx |-> IF i > 5 THEN Undef ELSE Sent(f[i])],
     pages_read |-> Sent(p), distance |-> Sent(d)]

RoutineBody == MkBody(AllOnes, 20, 0)

(* distance_km is DECIMAL(10,2); the model counts it in hundredths. *)
Km(n) == n * 100

RECURSIVE SumSeq(_, _)
SumSeq(f, i) == IF i = 0 THEN 0 ELSE f[i] + SumSeq(f, i - 1)

Min(a, b) == IF a < b THEN a ELSE b
Max(a, b) == IF a > b THEN a ELSE b

----------------------------------------------------------------------------
(* Day resolver *)

TzKnown(tz) == tz \in {"Asia/Tashkent", "UTC"}
TzOffset(tz) == IF tz = "Asia/Tashkent" THEN 5 ELSE 0

(* new Date().toISOString().split('T')[0] at the instant (d, h) *)
UtcDate(d, h) == d

(* Wall-clock date of the instant (d, h) in a zone (toLocaleString, parsed   *)
(* back by a server whose own zone is UTC).                                  *)
LocalDate(d, h, tz) == d + ((h + TzOffset(tz)) \div 24)

getUserTodayDate(d, h, tz) ==
    IF TzKnown(tz) THEN LocalDate(d, h, tz) ELSE UtcDate(d, h)

detectUserTimezone(header) == IF header = NoTz THEN "Asia/Tashkent" ELSE header

----------------------------------------------------------------------------
(* Table daily_progress *)

(* a generated column that leaves the last task out *)
GeneratedTotalPoints_withoutLast(flags) == SumSeq(flags, NumTasks - 1)

GeneratedTotalPoints(flags) == SumSeq(flags, NumTasks)

MkRow(u, date, flags, pages, dist) ==
    [tg_id |-> u, date |-> date, flags |-> flags, pages_read |-> pages,
     distance |-> dist, total_points |-> GeneratedTotalPoints(flags)]

RowsOf(table, u) == {r \in table : r.tg_id = u}

(* history.find(p => p.date === dateStr) *)
Find(H, date) ==
    IF \E r \in H : r.date = date THEN CHOOSE r \in H : r.date = date ELSE NoRow

(* .order('date', { ascending: false }).limit(n) *)
MostRecent(H, n) ==
    IF Cardinality(H) <= n THEN H
    ELSE {r \in H : Cardinality({q \in H : q.date > r.date}) < n}

(* CHECK constraints and the foreign key of daily_progress *)
RowAccepted(tbl_users, data) ==
    /\ tbl_users[data.tg_id].exists
    /\ \A i \in TaskIdx : data.flags[i] \in {0, 1}
    /\ data.pages_read >= 0
    /\ data.distance >= 0

(* an upsert whose update on conflict sets the flags and leaves the metrics *)
upsertDailyProgress_keepsMetrics(table, data) ==
    LET old == {r \in table : r.tg_id = data.tg_id /\ r.date = data.date}
        kept == IF old = {} THEN data ELSE CHOOSE r \in old : TRUE
    IN  (table \ old)
            \cup {MkRow(data.tg_id, data.date, data.flags, kept.pages_read, kept.distance)}

(* an upsert that adds the day's pages and distance to what is stored *)
upsertDailyProgress_accumulates(table, data) ==
    LET old == {r \in table : r.tg_id = data.tg_id /\ r.date = data.date}
        kept == IF old = {} THEN [pages_read |-> 0, distance |-> 0]
                ELSE CHOOSE r \in old : TRUE
    IN  (table \ old)
            \cup {MkRow(data.tg_id, data.date, data.flags,
                        kept.pages_read + data.pages_read, kept.distance + data.distance)}

(* INSERT ... ON CONFLICT (tg_id, date) DO UPDATE, one statement *)
upsertDailyProgress(table, data) ==
    {r \in table : ~(r.tg_id = data.tg_id /\ r.date = data.date)}
        \cup {MkRow(data.tg_id, data.date, data.flags, data.pages_read, data.distance)}

RECURSIVE SumPages(_)
SumPages(H) ==
    IF H = {} THEN 0
    ELSE LET r == CHOOSE x \in H : TRUE IN r.pages_read + SumPages(H \ {r})

RECURSIVE SumDistance(_)
SumDistance(H) ==
    IF H = {} THEN 0
    ELSE LET r == CHOOSE x \in H : TRUE IN r.distance + SumDistance(H \ {r})

(* the distances of a history in the order of .order('date', { ascending:    *)
(* false }), the rows without distance left out: adding 0 changes no sum     *)
RECURSIVE DistancesNewestFirst(_)
DistancesNewestFirst(H) ==
    IF H = {} THEN << >>
    ELSE LET r == CHOOSE x \in H : \A y \in H : y.date <= x.date
         IN  (IF r.distance = 0 THEN << >> ELSE <<r.distance>>)
                 \o DistancesNewestFirst(H \ {r})

(* distance_km is a binary64 number in the service, and                      *)
(* reduce((sum, day) => sum + parseFloat(day.distance_km), 0) rounds after   *)
(* every addition.  A sum of whole kilometres, of halves and of quarters is  *)
(* exact.  Of the other runs of distances the histories here hold, these are *)
(* the ones whose binary64 sum is below the number their hundredths add up   *)
(* to: 30.36 + 40.12 is 70.47999999999999 and with 29.52 it is               *)
(* 99.99999999999999; every other order of the three gives 100.              *)
InexactSums == {<<3036, 4012, 2952>>, <<4012, 3036, 2952>>}

SumFallsShort(H) == DistancesNewestFirst(H) \in InexactSums

(* totalDistance >= km for the binary64 sum of the history's distances *)
TotalDistanceAtLeast(H, km) ==
    \/ SumDistance(H) > Km(km)
    \/ SumDistance(H) = Km(km) /\ ~SumFallsShort(H)

(* Math.round(totalDistance * 100) / 100, in hundredths: the rounding takes  *)
(* a sum that fell short back to the hundredths                              *)
RoundedDistance(H) == SumDistance(H)

----------------------------------------------------------------------------
(* Request validation *)

(* parseInt(x) || 0 *)
ParseIntOr0(x) == IF x = Undef THEN 0 ELSE x[1]

(* Joi schema dailyProgress: every flag an integer 0..1 (default 0),         *)
(* pages_read 0..10000, distance_km 0..1000.                                 *)
validateDailyProgress(body) ==
    /\ \A i \in TaskIdx : body.flags[i] = Undef \/ body.flags[i][1] \in {0, 1}
    /\ body.pages_read = Undef
          \/ (body.pages_read[1] >= 0 /\ body.pages_read[1] <= MaxPagesRead)
    /\ body.distance = Undef
          \/ (body.distance[1] >= 0 /\ body.distance[1] <= Km(MaxDistanceKm))

(* the controller's own checks of flags and metrics *)
ControllerAccepts(body) ==
    /\ \A i \in TaskIdx : body.flags[i] = Undef \/ body.flags[i][1] \in {0, 1}
    /\ ParseIntOr0(body.pages_read) >= 0
    /\ ParseIntOr0(body.pages_read) <= MaxPagesRead
    /\ ParseIntOr0(body.distance) >= 0
    /\ ParseIntOr0(body.distance) <= Km(MaxDistanceKm)

progressData(u, date, body) ==
    [tg_id |-> u, date |-> date,
     flags |-> [i \in TaskIdx |-> ParseIntOr0(body.flags[i])],
     pages_read |-> ParseIntOr0(body.pages_read),
     distance |-> ParseIntOr0(body.distance)]

----------------------------------------------------------------------------
(* Streak predicates of one day's row *)

Found(r) == r # NoRow

AnyActivity(r) == r.total_points > 0
Task9Done(r) == r.flags[9] = 1
AllTasksCompleted(r) == \A i \in TaskIdx : r.flags[i] = 1

Qualifies(kind, r) ==
    CASE kind = "consistent" -> AnyActivity(r)
      [] kind = "early_bird" -> Task9Done(r)
      [] kind = "perfectionist" -> AllTasksCompleted(r)

----------------------------------------------------------------------------
(* Task controller, first revision: updateUserAchievements *)

TC1_history(table, u) == MostRecent(RowsOf(table, u), TC1_HistoryLimit)

RECURSIVE TC1_consistentLoop(_, _, _, _)
TC1_consistentLoop(H, today, i, n) ==
    IF i >= Min(Cardinality(H), TC1_HistoryLimit) THEN FALSE
    ELSE LET dayData == Find(H, today - i) IN
         IF Found(dayData) /\ dayData.total_points > 0
         THEN IF n + 1 >= StreakThreshold THEN TRUE
              ELSE TC1_consistentLoop(H, today, i + 1, n + 1)
         ELSE FALSE

TC1_perfectDays(H) == Cardinality({r \in H : r.total_points = NumTasks})
TC1_highActivityDays(H) == Cardinality({r \in H : r.total_points >= TC1_HighActivity})

(* cumulative thresholds that must be exceeded rather than reached *)
TC1_achievements_strict(H, today) ==
    {a \in AchievementIds :
        \/ a = "consistent" /\ TC1_consistentLoop(H, today, 0, 0)
        \/ a = "reader" /\ SumPages(H) > ReaderThreshold
        \/ a = "athlete" /\ SumDistance(H) > Km(AthleteThresholdKm)
        \/ a = "perfectionist" /\ TC1_perfectDays(H) >= StreakThreshold
        \/ a = "early_bird" /\ TC1_highActivityDays(H) >= StreakThreshold}

TC1_achievements(H, today) ==
    {a \in AchievementIds :
        \/ a = "consistent" /\ TC1_consistentLoop(H, today, 0, 0)
        \/ a = "reader" /\ SumPages(H) >= ReaderThreshold
        \/ a = "athlete" /\ SumDistance(H) >= Km(AthleteThresholdKm)
        \/ a = "perfectionist" /\ TC1_perfectDays(H) >= StreakThreshold
        \/ a = "early_bird" /\ TC1_highActivityDays(H) >= StreakThreshold}

----------------------------------------------------------------------------
(* Task controller, second revision: updateUserAchievements *)

TC2_history(table, u) == MostRecent(RowsOf(table, u), TC2_HistoryLimit)

RECURSIVE TC2_streakLoop(_, _, _, _, _)
TC2_streakLoop(H, today, kind, i, n) ==
    IF i >= StreakThreshold THEN n
    ELSE LET dayData == Find(H, today - i) IN
         IF Found(dayData) /\ Qualifies(kind, dayData)
         THEN TC2_streakLoop(H, today, kind, i + 1, n + 1)
         ELSE n

(* streak achievements that ask for one day more than the loop can count *)
TC2_currentAchievements_offByOne(H, today) ==
    {a \in AchievementIds :
        \/ a = "consistent" /\ TC2_streakLoop(H, today, "consistent", 0, 0) > StreakThreshold
        \/ a = "reader" /\ SumPages(H) >= ReaderThreshold
        \/ a = "athlete" /\ SumDistance(H) >= Km(AthleteThresholdKm)
        \/ a = "early_bird" /\ TC2_streakLoop(H, today, "early_bird", 0, 0) > StreakThreshold
        \/ a = "perfectionist"
              /\ TC2_streakLoop(H, today, "perfectionist", 0, 0) > StreakThreshold}

TC2_currentAchievements(H, today) ==
    {a \in AchievementIds :
        \/ a = "consistent" /\ TC2_streakLoop(H, today, "consistent", 0, 0) >= StreakThreshold
        \/ a = "reader" /\ SumPages(H) >= ReaderThreshold
        \/ a = "athlete" /\ SumDistance(H) >= Km(AthleteThresholdKm)
        \/ a = "early_bird" /\ TC2_streakLoop(H, today, "early_bird", 0, 0) >= StreakThreshold
        \/ a = "perfectionist"
              /\ TC2_streakLoop(H, today, "perfectionist", 0, 0) >= StreakThreshold}

(* What the deployed revision computes from the history it fetched. *)
TC_history(rev, table, u) ==
    IF rev = "v1" THEN TC1_history(table, u) ELSE TC2_history(table, u)

TC_earned(rev, H, today) ==
    IF H = {} THEN {}
    ELSE IF rev = "v1" THEN TC1_achievements(H, today)
    ELSE TC2_currentAchievements(H, today)

(* Both revisions merge alike: existing and earned united, written when longer. *)
TC_allAchievements(existing, earned) == existing \cup earned

TC_writes(existing, earned) ==
    /\ earned # {}
    /\ Cardinality(TC_allAchievements(existing, earned)) > Cardinality(existing)

(* UPDATE users SET achievements = ... WHERE tg_id = u *)
SetAchievements(tbl_users, u, set) ==
    IF tbl_users[u].exists THEN [tbl_users EXCEPT ![u].achievements = set] ELSE tbl_users

(* an evaluation that writes what it computed instead of the merged list *)
TC_updateUserAchievements_overwrites(rev, tbl_users, table, u, today) ==
    LET H == TC_history(rev, table, u)
        earned == TC_earned(rev, H, today)
        existing == tbl_users[u].achievements
    IN  IF TC_writes(existing, earned)
        THEN SetAchievements(tbl_users, u, earned)
        ELSE tbl_users

(* The whole evaluation run without interruption. *)
TC_updateUserAchievements(rev, tbl_users, table, u, today) ==
    LET H == TC_history(rev, table, u)
        earned == TC_earned(rev, H, today)
        existing == tbl_users[u].achievements
    IN  IF TC_writes(existing, earned)
        THEN SetAchievements(tbl_users, u, TC_allAchievements(existing, earned))
        ELSE tbl_users

TC_newAchievements(rev, tbl_users, table, u, today) ==
    LET H == TC_history(rev, table, u)
        earned == TC_earned(rev, H, today)
        existing == tbl_users[u].achievements
    IN  IF TC_writes(existing, earned) THEN earned \ existing ELSE {}

----------------------------------------------------------------------------
(* AchievementService *)

(* DatabaseService.getUserProgressHistory(tg_id, 60) at UTC date today *)
getUserProgressHistory(table, u, today, days) ==
    {r \in RowsOf(table, u) : r.date >= today - days}

RECURSIVE AS_checkLoop(_, _, _, _, _)
AS_checkLoop(H, today, kind, i, n) ==
    IF i >= AS_CheckDays THEN FALSE
    ELSE LET dayData == Find(H, today - i) IN
         IF Found(dayData) /\ Qualifies(kind, dayData)
         THEN IF n + 1 >= StreakThreshold THEN TRUE
              ELSE AS_checkLoop(H, today, kind, i + 1, n + 1)
         ELSE FALSE

checkConsistentAchievement(H, today) == AS_checkLoop(H, today, "consistent", 0, 0)
checkPerfectionistAchievement(H, today) == AS_checkLoop(H, today, "perfectionist", 0, 0)
checkEarlyBirdAchievement(H, today) == AS_checkLoop(H, today, "early_bird", 0, 0)
checkReaderAchievement(H) == SumPages(H) >= ReaderThreshold
checkAthleteAchievement(H) == TotalDistanceAtLeast(H, AthleteThresholdKm)

AS_check(a, H, today) ==
    CASE a = "consistent" -> checkConsistentAchievement(H, today)
      [] a = "reader" -> checkReaderAchievement(H)
      [] a = "athlete" -> checkAthleteAchievement(H)
      [] a = "early_bird" -> checkEarlyBirdAchievement(H, today)
      [] a = "perfectionist" -> checkPerfectionistAchievement(H, today)

(* checks that are run for the ids the user holds as well *)
AS_earnedNew_includesHeld(current, H, today) ==
    {a \in AchievementIds : AS_check(a, H, today)}

(* the ids pushed onto newAchievements: not yet held, and the check holds *)
AS_earnedNew(current, H, today) ==
    {a \in AchievementIds : a \notin current /\ AS_check(a, H, today)}

AS_updateUserAchievements(tbl_users, table, u, today) ==
    LET H == getUserProgressHistory(table, u, today, AS_HistoryDays)
        current == tbl_users[u].achievements
        earnedNew == AS_earnedNew(current, H, today)
    IN  IF tbl_users[u].exists /\ earnedNew # {}
        THEN SetAchievements(tbl_users, u, current \cup earnedNew)
        ELSE tbl_users

AS_returned(tbl_users, table, u, today) ==
    LET H == getUserProgressHistory(table, u, today, AS_HistoryDays)
    IN  IF tbl_users[u].exists
        THEN AS_earnedNew(tbl_users[u].achievements, H, today)
        ELSE {}

RECURSIVE AS_consistentStreakLoop(_, _, _, _)
AS_consistentStreakLoop(H, today, i, n) ==
    IF i >= Cardinality(H) THEN n
    ELSE LET dayData == Find(H, today - i) IN
         IF Found(dayData) /\ dayData.total_points > 0
         THEN IF i >= AS_StreakIndexCap THEN n + 1
              ELSE AS_consistentStreakLoop(H, today, i + 1, n + 1)
         ELSE n

(* a streak that counts the qualifying rows wherever they lie *)
getConsistentStreak_countsRows(H, today) ==
    Min(Cardinality({r \in H : r.total_points > 0}), AS_StreakIndexCap + 1)

getConsistentStreak(H, today) == AS_consistentStreakLoop(H, today, 0, 0)

(* getEarlyBirdStreak and getPerfectionistStreak: the walk of the check,     *)
(* over AS_CheckDays days whatever the length of the history, left after the *)
(* day of index AS_StreakIndexCap                                            *)
RECURSIVE AS_streakLoop(_, _, _, _, _)
AS_streakLoop(H, today, kind, i, n) ==
    IF i >= AS_CheckDays THEN n
    ELSE LET dayData == Find(H, today - i) IN
         IF Found(dayData) /\ Qualifies(kind, dayData)
         THEN IF i >= AS_StreakIndexCap THEN n + 1
              ELSE AS_streakLoop(H, today, kind, i + 1, n + 1)
         ELSE n

getEarlyBirdStreak(H, today) == AS_streakLoop(H, today, "early_bird", 0, 0)
getPerfectionistStreak(H, today) == AS_streakLoop(H, today, "perfectionist", 0, 0)

(* currentProgress and maxProgress of one achievement; distance in hundredths *)
AS_currentProgress(a, H, today) ==
    CASE a = "consistent" -> getConsistentStreak(H, today)
      [] a = "reader" -> SumPages(H)
      [] a = "athlete" -> RoundedDistance(H)
      [] a = "perfectionist" -> getPerfectionistStreak(H, today)
      [] a = "early_bird" -> getEarlyBirdStreak(H, today)

AS_maxProgress(a) ==
    CASE a = "reader" -> ReaderThreshold
      [] a = "athlete" -> Km(AthleteThresholdKm)
      [] OTHER -> StreakThreshold

(* AchievementService.getAchievementProgress: one entry for each definition, *)
(* none when the user is not found                                           *)
AS_getAchievementProgress(tbl_users, table, u, today) ==
    LET progressHistory == getUserProgressHistory(table, u, today, AS_HistoryDays)
    IN  IF ~tbl_users[u].exists THEN {}
        ELSE {[id |-> a,
               earned |-> a \in tbl_users[u].achievements,
               current |-> Min(AS_currentProgress(a, progressHistory, today),
                               AS_maxProgress(a)),
               max |-> AS_maxProgress(a)] : a \in AchievementIds}

----------------------------------------------------------------------------
(* User controller: calculateUserStreak *)

RECURSIVE CU_streakLoop(_, _, _, _)
CU_streakLoop(data, today, i, n) ==
    IF i >= CU_StreakDays THEN n
    ELSE LET dayData == Find(data, today - i) IN
         IF Found(dayData) /\ dayData.total_points > 0
         THEN CU_streakLoop(data, today, i + 1, n + 1)
         ELSE n

calculateUserStreak(table, u, today) ==
    CU_streakLoop(MostRecent(RowsOf(table, u), CU_StreakDays), today, 0, 0)

----------------------------------------------------------------------------
(* Requests and answers *)

Idle == [pc |-> "idle"]

NoAnswer ==
    [op |-> "none", tg_id |-> 0, date |-> 0, today |-> 0, status |-> "none",
     body |-> RoutineBody,
     prev |-> NoRow, evaluated |-> FALSE, before |-> {}, earned |-> {},
     fault |-> "none"]

Answer(op, u, date, today, status, body, prev, evaluated, fault, before, earned) ==
    [op |-> op, tg_id |-> u, date |-> date, today |-> today, status |-> status,
     body |-> body,
     prev |-> prev, evaluated |-> evaluated, before |-> before, earned |-> earned,
     fault |-> fault]

NoOut == [op |-> "none", tg_id |-> 0, today |-> 0, current_streak |-> 0, consistent |-> 0]

Today == UtcDate(now, hour)

(* the date a submission is stored under *)
SubmitDate(rev, header) ==
    IF rev = "v1" THEN UtcDate(now, hour)
    ELSE getUserTodayDate(now, hour, detectUserTimezone(header))

(* the same checks without the one of is_approved *)
SubmitStatus_skipsApproval(tbl_users, u, body, data) ==
    IF ~validateDailyProgress(body) THEN "400"
    ELSE IF ~ControllerAccepts(body) THEN "400"
    ELSE IF ~tbl_users[u].exists THEN "404"
    ELSE IF ~RowAccepted(tbl_users, data) THEN "500"
    ELSE "ok"

(* HTTP status of a submission answered before the store is reached, or "ok" *)
SubmitStatus(tbl_users, u, body, data) ==
    IF ~validateDailyProgress(body) THEN "400"
    ELSE IF ~ControllerAccepts(body) THEN "400"
    ELSE IF ~tbl_users[u].exists THEN "404"
    ELSE IF ~tbl_users[u].is_approved THEN "403"
    ELSE IF ~RowAccepted(tbl_users, data) THEN "500"
    ELSE "ok"

----------------------------------------------------------------------------
(* Handlers run one after another *)

(* What can go wrong inside an evaluation: the history query, the query of   *)
(* the user, or the update of the user does not answer.                      *)
Faults == {"none", "history", "user", "write"}

(* updateUserAchievements of the task controller under a fault.  A history   *)
(* query without data ends the evaluation; a user query without data leaves  *)
(* existingAchievements empty and the merge is written all the same; an      *)
(* update that fails is not looked at.                                       *)
TC_evaluation(fault, rev, tbl_users, table, u, today) ==
    LET earned == TC_earned(rev, TC_history(rev, table, u), today)
    IN  CASE fault = "none" -> TC_updateUserAchievements(rev, tbl_users, table, u, today)
          [] fault = "user" ->
                IF TC_writes({}, earned)
                THEN SetAchievements(tbl_users, u, TC_allAchievements({}, earned))
                ELSE tbl_users
          [] OTHER -> tbl_users

(* a handler that awaits the evaluation and lets its failure reach the answer *)
submitDailyProgress_awaitsEvaluation(u, body, header, fault) ==
    LET date == SubmitDate(revision, header)
        data == progressData(u, date, body)
        status == SubmitStatus(users, u, body, data)
        prev == Find(RowsOf(daily_progress, u), date)
    IN  IF status = "ok" /\ fault = "none"
        THEN /\ daily_progress' = upsertDailyProgress(daily_progress, data)
             /\ users' = TC_updateUserAchievements(revision, users, daily_progress', u, Today)
             /\ last' = Answer("submit", u, date, Today, "ok", body, prev, TRUE, fault,
                               users[u].achievements,
                               TC_newAchievements(revision, users, daily_progress', u, Today))
        ELSE /\ UNCHANGED <<daily_progress, users>>
             /\ last' = Answer("submit", u, date, Today,
                               IF status = "ok" THEN "500" ELSE status,
                               body, prev, FALSE,
                               IF status = "ok" THEN fault ELSE "none",
                               users[u].achievements, {})

(* POST /api/tasks/submit: validation, the user check, the upsert and the     *)
(* achievement evaluation it starts, which may meet a fault.                  *)
submitDailyProgress(u, body, header, fault) ==
    LET date == SubmitDate(revision, header)
        data == progressData(u, date, body)
        status == SubmitStatus(users, u, body, data)
        prev == Find(RowsOf(daily_progress, u), date)
        table == upsertDailyProgress(daily_progress, data)
    IN  IF status = "ok"
        THEN /\ daily_progress' = table
             /\ users' = TC_evaluation(fault, revision, users, table, u, Today)
             /\ last' = Answer("submit", u, date, Today, "ok", body, prev,
                               fault = "none", fault,
                               users[u].achievements,
                               IF fault = "none"
                               THEN TC_newAchievements(revision, users, table, u, Today)
                               ELSE {})
        ELSE /\ UNCHANGED <<daily_progress, users>>
             /\ last' = Answer("submit", u, date, Today, status, body, prev, FALSE, "none",
                               users[u].achievements, {})

(* POST /api/users/:userId/debug/update-achievements.  A query or an update   *)
(* that fails throws, the service catches it and returns the empty list.      *)
forceUpdateAchievements(u, fault) ==
    /\ users' = IF fault = "none"
                THEN AS_updateUserAchievements(users, daily_progress, u, Today)
                ELSE users
    /\ last' = Answer("force", u, Today, Today, "ok", RoutineBody, NoRow,
                      users[u].exists /\ fault = "none", fault,
                      users[u].achievements,
                      IF fault = "none"
                      THEN AS_returned(users, daily_progress, u, Today)
                      ELSE {})

(* the streak figures the read side shows: calculateUserStreak of the user    *)
(* controller and getConsistentStreak of the achievement progress             *)
readStreaks(u) ==
    out' = [op |-> "streaks", tg_id |-> u, today |-> Today,
            current_streak |-> calculateUserStreak(daily_progress, u, Today),
            consistent |-> getConsistentStreak(
                getUserProgressHistory(daily_progress, u, Today, AS_HistoryDays), Today)]

NoRequest == \A r \in ReqIds : reqs[r] = Idle

FirstOfDay(u, header) ==
    ~Found(Find(RowsOf(daily_progress, u), SubmitDate(revision, header)))

IsRoutine(u, body, header, fault) ==
    /\ body = RoutineBody
    /\ header = NoTz
    /\ hour = 10
    /\ fault = "none"
    /\ FirstOfDay(u, header)

(* A day in the life: the routine submission is free, anything else is counted. *)
Submit(u, body, header, fault, maxOdd) ==
    /\ NoRequest
    /\ IsRoutine(u, body, header, fault) \/ odd < maxOdd
    /\ odd' = IF IsRoutine(u, body, header, fault) THEN odd ELSE odd + 1
    /\ submitDailyProgress(u, body, header, fault)
    /\ out' = NoOut
    /\ UNCHANGED <<now, hour, revision, reqs>>

ForceUpdate(u, fault) ==
    /\ NoRequest
    /\ forceUpdateAchievements(u, fault)
    /\ out' = NoOut
    /\ UNCHANGED <<now, hour, revision, daily_progress, reqs, odd>>

ReadStreaks(u) ==
    /\ NoRequest
    /\ readStreaks(u)
    /\ UNCHANGED <<now, hour, revision, users, daily_progress, reqs, last, odd>>

SkippedToday == \E u \in UserIds :
    users[u].is_approved /\ ~Found(Find(RowsOf(daily_progress, u), Today))

(* Midnight UTC passes; a day some approved user let pass is counted. *)
TickDay(maxDay, maxOdd) ==
    /\ NoRequest
    /\ now < maxDay
    /\ SkippedToday => odd < maxOdd
    /\ odd' = IF SkippedToday THEN odd + 1 ELSE odd
    /\ now' = now + 1
    /\ hour' = 10
    /\ out' = NoOut
    /\ UNCHANGED <<revision, users, daily_progress, reqs, last>>

(* Midnight UTC passes. *)
Midnight(maxDay) ==
    /\ NoRequest
    /\ now < maxDay
    /\ now' = now + 1
    /\ hour' = 10
    /\ out' = NoOut
    /\ UNCHANGED <<revision, users, daily_progress, reqs, last, odd>>

(* The evening of the same day: 20:00 UTC is past midnight in Tashkent. *)
TickEvening ==
    /\ NoRequest
    /\ hour = 10
    /\ hour' = 20
    /\ out' = NoOut
    /\ UNCHANGED <<now, revision, users, daily_progress, reqs, last, odd>>

----------------------------------------------------------------------------
(* Specification Spec: one approved user's days, up to MaxDay.  For the first *)
(* RoutineDays days the user keeps the routine of one perfect submission a    *)
(* day; from then on any day may be skipped or filled with any submission.    *)

ApprovedUser == [exists |-> TRUE, is_approved |-> TRUE, achievements |-> {}]
PendingUser == [exists |-> TRUE, is_approved |-> FALSE, achievements |-> {}]

ReaderDay == MkBody(AllOnes, ReaderThreshold, 0)

StreakBodies ==
    {RoutineBody, MkBody(AllZero, 0, 0), MkBody(OnlyTask9, 0, 0), MkBody(AllButTask9, 0, 0),
     ReaderDay}

Init ==
    /\ now = 0
    /\ hour = 10
    /\ revision \in {"v1", "v2"}
    /\ users = [u \in UserIds |-> IF u = 1 THEN ApprovedUser
                                  ELSE IF u = 2 THEN PendingUser ELSE NoUser]
    /\ daily_progress = {}
    /\ reqs = [r \in ReqIds |-> Idle]
    /\ last = NoAnswer
    /\ out = NoOut
    /\ odd = 0

DailySubmit(u, body, header, fault) ==
    /\ NoRequest
    /\ IsRoutine(u, body, header, fault) \/ now >= RoutineDays
    /\ submitDailyProgress(u, body, header, fault)
    /\ out' = NoOut
    /\ UNCHANGED <<now, hour, revision, reqs, odd>>

NextDay(maxDay) ==
    /\ SkippedToday => now >= RoutineDays
    /\ Midnight(maxDay)

Next ==
    \/ \E body \in StreakBodies : DailySubmit(1, body, NoTz, "none")
    \/ DailySubmit(1, RoutineBody, NoTz, "history")
    \/ last.op \in {"submit", "force"} /\ ForceUpdate(1, "none")
    \/ NextDay(MaxDay)

Spec == Init /\ [][Next]_vars

----------------------------------------------------------------------------
(* Specification SpecLong: the same days over a horizon longer than every     *)
(* lookback window, with the read side's streak figures.                      *)

LongBodies == {RoutineBody, MkBody(AllOnes, 4780, 0)}

NextLong ==
    \/ \E body \in LongBodies :
          FirstOfDay(1, NoTz) /\ Submit(1, body, NoTz, "none", MaxLongOdd)
    \/ last.op = "submit" /\ ForceUpdate(1, "none")
    \/ TickDay(MaxLongDay, MaxLongOdd)

SpecLong == Init /\ [][NextLong]_vars

----------------------------------------------------------------------------
(* Specification SpecShort: a few submissions of any kind, by any user, at    *)
(* any hour, over MaxShortDay days.                                           *)

ShortBodies ==
    {RoutineBody,
     MkBody(AllZero, 5980, Km(AthleteThresholdKm) - 1),
     MkBody(OnlyTask9, 5999, 1),
     MkPartialBody(AllOnes, MaxPagesRead, Km(MaxDistanceKm)),
     MkBody(BadFlag, 0, 0),
     MkBody(AllOnes, MaxPagesRead + 1, 0)}

Headers == {NoTz, "UTC"}

SubmitCounted(u, body, header, fault, maxSubmits) ==
    /\ NoRequest
    /\ odd < maxSubmits
    /\ odd' = odd + 1
    /\ submitDailyProgress(u, body, header, fault)
    /\ out' = NoOut
    /\ UNCHANGED <<now, hour, revision, reqs>>

InitShort ==
    /\ now = 0
    /\ hour = 10
    /\ revision \in {"v1", "v2"}
    /\ users = [u \in UserIds |-> IF u = 3 THEN PendingUser ELSE ApprovedUser]
    /\ daily_progress = {}
    /\ reqs = [r \in ReqIds |-> Idle]
    /\ last = NoAnswer
    /\ out = NoOut
    /\ odd = 0

NextShort ==
    \/ \E u \in UserIds, body \in ShortBodies, header \in Headers :
          SubmitCounted(u, body, header, "none", MaxSubmits)
    \/ \E u \in UserIds : last.op = "submit" /\ last.tg_id = u /\ ForceUpdate(u, "none")
    \/ TickEvening
    \/ Midnight(MaxShortDay)

SpecShort == InitShort /\ [][NextShort]_vars

----------------------------------------------------------------------------
(* Specification SpecFault: submissions that pass or fail validation, from    *)
(* an approved user, an id nobody registered and a user awaiting approval,    *)
(* with evaluations in which a query or the update may not answer.            *)

MaxFaultDay == 1
MaxFaultSubmits == 2

LimitBody == MkPartialBody(AllOnes, MaxPagesRead, Km(MaxDistanceKm))

RejectedBodies ==
    {MkBody(BadFlag, 0, 0),
     MkBody(AllOnes, 0 - 1, 0),
     MkBody(AllOnes, 0, 0 - 1),
     MkBody(AllOnes, MaxPagesRead + 1, 0),
     MkBody(AllOnes, 0, Km(MaxDistanceKm) + 1)}

FaultBodies == {ReaderDay, LimitBody} \cup RejectedBodies

InitFault ==
    /\ now = 0
    /\ hour = 10
    /\ revision \in {"v1", "v2"}
    /\ users = [u \in UserIds |->
                  CASE u = 1 -> ApprovedUser [] u = 2 -> NoUser [] OTHER -> PendingUser]
    /\ daily_progress = {}
    /\ reqs = [r \in ReqIds |-> Idle]
    /\ last = NoAnswer
    /\ out = NoOut
    /\ odd = 0

NextFault ==
    \/ \E u \in UserIds, body \in FaultBodies, fault \in Faults :
          SubmitCounted(u, body, NoTz, fault, MaxFaultSubmits)
    \/ \E fault \in Faults : last.op = "submit" /\ ForceUpdate(last.tg_id, fault)
    \/ Midnight(MaxFaultDay)

SpecFault == InitFault /\ [][NextFault]_vars

----------------------------------------------------------------------------
(* The leaderboard: the view user_statistics and GET /api/leaderboard *)

LimitDefault == 100
LimitCap == 500
WeeklyDaysBack == 6

Periods == {"daily", "weekly", "all"}
Types == {"overall", "reading", "distance"}

RECURSIVE SumField(_, _)
SumField(H, f) ==
    IF H = {} THEN 0
    ELSE LET r == CHOOSE x \in H : TRUE IN r[f] + SumField(H \ {r}, f)

(* the column of user_statistics a (period, type) is ordered by: which rows  *)
(* of daily_progress it adds up, and which of their columns                  *)
OrderField(period, type) ==
    [rows |-> CASE period = "daily" -> "daily"
                [] period = "weekly" -> "weekly"
                [] OTHER -> "total",
     column |-> CASE type = "reading" -> "pages_read"
                  [] type = "distance" -> "distance"
                  [] OTHER -> "total_points"]

(* the rows the view joins for one user: today's, those of the last seven    *)
(* days including today, or all                                              *)
ViewRows(table, u, current_date, rows) ==
    CASE rows = "daily" -> {r \in RowsOf(table, u) : r.date = current_date}
      [] rows = "weekly" ->
            {r \in RowsOf(table, u) :
                r.date >= current_date - WeeklyDaysBack /\ r.date <= current_date}
      [] OTHER -> RowsOf(table, u)

(* one column of one user's row of user_statistics; distance stays in        *)
(* hundredths, which rounding to two decimals leaves as they are             *)
user_statistics(table, u, current_date, field) ==
    SumField(ViewRows(table, u, current_date, field.rows), field.column)

(* the users that have a row in the view with is_approved = true *)
ViewUsers(tbl_users) ==
    {u \in DOMAIN tbl_users : tbl_users[u].exists /\ tbl_users[u].is_approved}

(* the filter with gte in the place of gt *)
ScoreAbove_orEqual(tbl_users, table, current_date, field, n) ==
    {u \in ViewUsers(tbl_users) : user_statistics(table, u, current_date, field) >= n}

(* .eq('is_approved', true).gt(orderField, n) *)
ScoreAbove(tbl_users, table, current_date, field, n) ==
    {u \in ViewUsers(tbl_users) : user_statistics(table, u, current_date, field) > n}

(* ties ordered by descending tg_id *)
RECURSIVE OrderBy_tiesDescending(_, _, _, _)
OrderBy_tiesDescending(S, table, current_date, field) ==
    IF S = {} THEN << >>
    ELSE LET first == CHOOSE u \in S : \A v \in S \ {u} :
                 \/ user_statistics(table, u, current_date, field)
                       > user_statistics(table, v, current_date, field)
                 \/ /\ user_statistics(table, u, current_date, field)
                          = user_statistics(table, v, current_date, field)
                    /\ u > v
         IN  <<first>> \o OrderBy_tiesDescending(S \ {first}, table, current_date, field)

(* .order(orderField, { ascending: false }).order('tg_id', { ascending: true }) *)
RECURSIVE OrderBy(_, _, _, _)
OrderBy(S, table, current_date, field) ==
    IF S = {} THEN << >>
    ELSE LET first == CHOOSE u \in S : \A v \in S \ {u} :
                 \/ user_statistics(table, u, current_date, field)
                       > user_statistics(table, v, current_date, field)
                 \/ /\ user_statistics(table, u, current_date, field)
                          = user_statistics(table, v, current_date, field)
                    /\ u < v
         IN  <<first>> \o OrderBy(S \ {first}, table, current_date, field)

(* Math.min(parseInt(limit) || 100, 500), limit = 100 when not sent *)
limitNum(limit) ==
    Min(IF ParseIntOr0(limit) = 0 THEN LimitDefault ELSE ParseIntOr0(limit), LimitCap)

(* .limit(n) *)
Limit(s, n) == SubSeq(s, 1, Min(n, Len(s)))

NoEntry == [exists |-> FALSE]

(* the rank of a user outside the list without the one added to the count *)
currentUserOutside_rankFromZero(tbl_users, table, current_date, field, telegramId) ==
    IF telegramId \in ViewUsers(tbl_users)
    THEN LET userScore == user_statistics(table, telegramId, current_date, field)
         IN  [rank |-> Cardinality(ScoreAbove(tbl_users, table, current_date, field, userScore)),
              tg_id |-> telegramId, score |-> userScore, in_top_list |-> FALSE]
    ELSE NoEntry

(* the user asked for is not in the list: their row of the view, if they are *)
(* approved, and one plus the number of approved users with a greater score  *)
currentUserOutside(tbl_users, table, current_date, field, telegramId) ==
    IF telegramId \in ViewUsers(tbl_users)
    THEN LET userScore == user_statistics(table, telegramId, current_date, field)
         IN  [rank |-> Cardinality(ScoreAbove(tbl_users, table, current_date, field, userScore)) + 1,
              tg_id |-> telegramId, score |-> userScore, in_top_list |-> FALSE]
    ELSE NoEntry

(* the answer with as many participants as entries in the list *)
Leaderboard_countsEntries(tbl_users, table, current_date, period, type, limit, tg_id) ==
    LET field == OrderField(period, type)
        data == Limit(OrderBy(ScoreAbove(tbl_users, table, current_date, field, 0),
                              table, current_date, field),
                      limitNum(limit))
        leaderboard == [i \in 1..Len(data) |->
                          [rank |-> i, tg_id |-> data[i],
                           score |-> user_statistics(table, data[i], current_date, field)]]
    IN  [op |-> "leaderboard", period |-> period, type |-> type, limit |-> limit,
         tg_id |-> tg_id, today |-> current_date,
         leaderboard |-> leaderboard, current_user |-> NoEntry,
         total_participants |-> Len(data)]

(* the answer of getLeaderboard *)
Leaderboard(tbl_users, table, current_date, period, type, limit, tg_id) ==
    LET field == OrderField(period, type)
        data == Limit(OrderBy(ScoreAbove(tbl_users, table, current_date, field, 0),
                              table, current_date, field),
                      limitNum(limit))
        leaderboard == [i \in 1..Len(data) |->
                          [rank |-> i, tg_id |-> data[i],
                           score |-> user_statistics(table, data[i], current_date, field)]]
        inList == {i \in 1..Len(data) : tg_id # Undef /\ data[i] = tg_id[1]}
        current_user ==
            IF tg_id = Undef THEN NoEntry
            ELSE IF inList # {}
            THEN LET i == CHOOSE j \in inList : TRUE
                 IN  [rank |-> leaderboard[i].rank, tg_id |-> leaderboard[i].tg_id,
                      score |-> leaderboard[i].score, in_top_list |-> TRUE]
            ELSE currentUserOutside(tbl_users, table, current_date, field, tg_id[1])
    IN  [op |-> "leaderboard", period |-> period, type |-> type, limit |-> limit,
         tg_id |-> tg_id, today |-> current_date,
         leaderboard |-> leaderboard,
         current_user |-> IF Len(data) = 0 THEN NoEntry ELSE current_user,
         total_participants |->
            IF Len(data) = 0 THEN 0
            ELSE Cardinality(ScoreAbove(tbl_users, table, current_date, field, 0))]

(* GET /api/leaderboard?period=&type=&limit=&tg_id= *)
getLeaderboard(period, type, limit, tg_id) ==
    /\ out.op # "leaderboard"
    /\ out' = Leaderboard(users, daily_progress, Today, period, type, limit, tg_id)
    /\ UNCHANGED <<now, hour, revision, users, daily_progress, reqs, last, odd>>

(* DatabaseService.updateUserApproval *)
updateUserApproval(u, is_approved, maxChanges) ==
    /\ users[u].exists
    /\ users[u].is_approved # is_approved
    /\ odd < maxChanges
    /\ odd' = odd + 1
    /\ users' = [users EXCEPT ![u].is_approved = is_approved]
    /\ out' = NoOut
    /\ UNCHANGED <<now, hour, revision, daily_progress, reqs, last>>

----------------------------------------------------------------------------
(* Specification SpecBoard: five registered users whose rows were stored on  *)
(* a Sunday a week ago, on last Sunday and on the Monday the behaviour       *)
(* starts, leaderboard queries of every period and type, one change of       *)
(* approval, and the night to Tuesday.                                       *)

BoardMonday == 8
MaxBoardDay == 9
MaxApprovalChanges == 1

BoardIds == {3, 4, 5, 7, 8, 9}
UnknownId == 4

FirstFlags(k) == [i \in TaskIdx |-> IF i <= k THEN 1 ELSE 0]

(* what one user has stored *)
BoardRows(u, profile) ==
    CASE profile = "none" -> {}
      [] profile = "monday" -> {MkRow(u, BoardMonday, FirstFlags(5), 50, 0)}
      [] profile = "sunday" -> {MkRow(u, BoardMonday - 1, FirstFlags(4), 30, 250)}
      [] profile = "old" -> {MkRow(u, BoardMonday - 8, FirstFlags(3), 50, 100),
                             MkRow(u, BoardMonday, FirstFlags(2), 0, 150)}
      [] OTHER -> {MkRow(u, BoardMonday, FirstFlags(9), 10, 0)}

BoardProfiles(u) ==
    IF u \in {3, 7, 9} THEN {"none", "monday", "sunday", "old"}
    ELSE IF u = UnknownId THEN {"none"}
    ELSE {"none", "top"}

BoardLimits == {Sent(0), Sent(1), Sent(2), Sent(LimitCap + 100)}
BoardFocus == {Undef, Sent(UnknownId), Sent(3), Sent(8)}
BoardApprovalIds == {5, 9}

(* values of period and type that are none of the handler's *)
UnknownPeriods == {"monthly"}
UnknownTypes == {"steps"}

InitBoard ==
    /\ now = BoardMonday
    /\ hour = 10
    /\ revision = "v2"
    /\ users = [u \in BoardIds |-> IF u = UnknownId THEN NoUser ELSE ApprovedUser]
    /\ \E profile \in [BoardIds -> {"none", "monday", "sunday", "old", "top"}] :
          /\ \A u \in BoardIds : profile[u] \in BoardProfiles(u)
          /\ daily_progress = UNION {BoardRows(u, profile[u]) : u \in BoardIds}
    /\ reqs = [r \in ReqIds |-> Idle]
    /\ last = NoAnswer
    /\ out = NoOut
    /\ odd = 0

NextBoard ==
    \/ \E period \in Periods, type \in Types, limit \in BoardLimits, tg_id \in BoardFocus :
          getLeaderboard(period, type, limit, tg_id)
    \/ \E period \in Periods \cup UnknownPeriods, type \in Types \cup UnknownTypes :
          /\ period \in UnknownPeriods \/ type \in UnknownTypes
          /\ getLeaderboard(period, type, Sent(2), Undef)
    \/ \E u \in BoardApprovalIds, is_approved \in BOOLEAN :
          updateUserApproval(u, is_approved, MaxApprovalChanges)
    \/ Midnight(MaxBoardDay)

SpecBoard == InitBoard /\ [][NextBoard]_vars

----------------------------------------------------------------------------
(* The statistics summary: the week of the day resolver and the array of    *)
(* daily points, in the two revisions of the user controller                 *)

WeekLength == 7

(* Date.getDay(): 0 is Sunday.  Day 0 of the model is a Sunday. *)
getDay(date) == date % 7

(* the week with Sunday taken for its first day *)
getCurrentWeekData_sundayFirst(d, h, timezone) ==
    LET today == LocalDate(d, h, timezone)
        weekStart == today - getDay(today)
    IN  [startDate |-> weekStart, endDate |-> weekStart + 6,
         weekDates |-> [i \in 1..WeekLength |-> weekStart + (i - 1)],
         currentDayIndex |-> getDay(today)]

getCurrentWeekData(d, h, timezone) ==
    LET today == LocalDate(d, h, timezone)
        dayOfWeek == getDay(today)
        daysFromMonday == IF dayOfWeek = 0 THEN 6 ELSE dayOfWeek - 1
        weekStart == today - daysFromMonday
    IN  [startDate |-> weekStart, endDate |-> weekStart + 6,
         weekDates |-> [i \in 1..WeekLength |-> weekStart + (i - 1)],
         currentDayIndex |-> daysFromMonday]

(* the points of the lookups that answered, the others left out *)
RECURSIVE weeklyPoints_dropsFailed(_, _, _, _)
weeklyPoints_dropsFailed(table, u, dates, failed) ==
    IF dates = << >> THEN << >>
    ELSE LET r == Find(RowsOf(table, u), Head(dates))
             rest == weeklyPoints_dropsFailed(table, u, Tail(dates),
                                              {i - 1 : i \in failed \ {1}})
         IN  IF 1 \in failed THEN rest
             ELSE <<IF Found(r) THEN r.total_points ELSE 0>> \o rest

(* results.map(...): one lookup of total_points per date; a lookup that      *)
(* fails or finds no row gives 0                                             *)
weeklyPoints(table, u, dates, failed) ==
    [i \in 1..Len(dates) |->
        IF i \in failed THEN 0
        ELSE LET r == Find(RowsOf(table, u), dates[i])
             IN  IF Found(r) THEN r.total_points ELSE 0]

SevenZeros == <<0, 0, 0, 0, 0, 0, 0>>

(* part_006: Monday to Sunday of the week of today in the timezone; a zone   *)
(* the runtime does not know and a lookup that throws end in the catch       *)
getCurrentWeekDailyPoints(table, u, d, h, timezone, failed, thrown) ==
    IF ~TzKnown(timezone) \/ thrown THEN SevenZeros
    ELSE weeklyPoints(table, u, getCurrentWeekData(d, h, timezone).weekDates, failed)

(* userController.js: the last seven days, today last *)
getWeeklyDailyPoints(table, u, d, h, failed, thrown) ==
    IF thrown THEN SevenZeros
    ELSE weeklyPoints(table, u,
                      [i \in 1..WeekLength |-> UtcDate(d, h) - (WeekLength - i)], failed)

InView(u) == users[u].exists /\ users[u].is_approved

(* GET /api/users/:userId/statistics?timezone= (part_006) *)
getUserStatistics(u, timezone, failed, thrown) ==
    LET userTimezone == IF timezone = NoTz THEN "UTC" ELSE timezone
        points == getCurrentWeekDailyPoints(daily_progress, u, now, hour, userTimezone,
                                            failed, thrown)
    IN  /\ out' = [op |-> "statistics", controller |-> "week", tg_id |-> u,
                   timezone |-> userTimezone, failed |-> failed, thrown |-> thrown,
                   status |-> IF InView(u) THEN "ok" ELSE "404",
                   dailyPoints |-> IF InView(u) THEN points ELSE << >>,
                   weeklyTotal |-> IF InView(u) THEN SumSeq(points, Len(points)) ELSE 0]
        /\ UNCHANGED <<now, hour, revision, users, daily_progress, reqs, last, odd>>

(* GET /api/leaderboard/stats/weekly/:userId?timezone= (part_006).  The week  *)
(* is computed outside any try of its own: a zone the runtime does not know   *)
(* throws into the handler's catch, which answers 500.                        *)
getWeeklyStats(u, timezone, failed, thrown) ==
    LET userTimezone == IF timezone = NoTz THEN "UTC" ELSE timezone
        week == getCurrentWeekData(now, hour, userTimezone)
        points == getCurrentWeekDailyPoints(daily_progress, u, now, hour, userTimezone,
                                            failed, thrown)
        completedDaysInWeek == week.currentDayIndex + 1
    IN  /\ out' = IF TzKnown(userTimezone)
                  THEN [op |-> "weekly_stats", controller |-> "week", tg_id |-> u,
                        timezone |-> userTimezone, failed |-> failed, thrown |-> thrown,
                        status |-> "ok", dailyPoints |-> points,
                        weeklyTotal |-> SumSeq(points, completedDaysInWeek)]
                  ELSE [op |-> "weekly_stats", controller |-> "week", tg_id |-> u,
                        timezone |-> userTimezone, failed |-> failed, thrown |-> thrown,
                        status |-> "500", dailyPoints |-> << >>, weeklyTotal |-> 0]
        /\ UNCHANGED <<now, hour, revision, users, daily_progress, reqs, last, odd>>

(* GET /api/users/:userId/statistics (userController.js) *)
getUserStatisticsLast7(u, failed, thrown) ==
    LET points == getWeeklyDailyPoints(daily_progress, u, now, hour, failed, thrown)
    IN  /\ out' = [op |-> "statistics", controller |-> "last7", tg_id |-> u,
                   timezone |-> "UTC", failed |-> failed, thrown |-> thrown,
                   status |-> IF InView(u) THEN "ok" ELSE "404",
                   dailyPoints |-> IF InView(u) THEN points ELSE << >>,
                   weeklyTotal |-> 0]
        /\ UNCHANGED <<now, hour, revision, users, daily_progress, reqs, last, odd>>

----------------------------------------------------------------------------
(* Specification SpecWeek: user 1 submits or skips each day from a Monday to *)
(* the Monday after, and statistics are asked for in the morning and in the  *)
(* evening, in UTC, in Asia/Tashkent and in a zone that does not exist.      *)

WeekFirstDay == 1
MaxWeekDay == 8

(* between 1 and 7 tasks done, by the day *)
WeekBody(d) == MkBody(FirstFlags(1 + (d % 7)), 0, 0)

StatisticsZones == {NoTz, "Asia/Tashkent", "Mars/Phobos"}
FailedLookups == {{}, {3}}

InitWeek ==
    /\ now = WeekFirstDay
    /\ hour = 10
    /\ revision = "v2"
    /\ users = [u \in UserIds |-> IF u = 3 THEN PendingUser ELSE ApprovedUser]
    /\ daily_progress = {}
    /\ reqs = [r \in ReqIds |-> Idle]
    /\ last = NoAnswer
    /\ out = NoOut
    /\ odd = 0

WeekSubmit ==
    /\ NoRequest
    /\ hour = 10
    /\ FirstOfDay(1, "UTC")
    /\ submitDailyProgress(1, WeekBody(now), "UTC", "none")
    /\ out' = NoOut
    /\ UNCHANGED <<now, hour, revision, reqs, odd>>

NextWeek ==
    \/ WeekSubmit
    \/ \E u \in {1, 3}, timezone \in StatisticsZones, failed \in FailedLookups,
          thrown \in BOOLEAN :
          getUserStatistics(u, timezone, failed, thrown)
    \/ \E u \in {1, 3}, failed \in FailedLookups, thrown \in BOOLEAN :
          getUserStatisticsLast7(u, failed, thrown)
    \/ \E timezone \in StatisticsZones, failed \in FailedLookups, thrown \in BOOLEAN :
          getWeeklyStats(1, timezone, failed, thrown)
    \/ TickEvening
    \/ Midnight(MaxWeekDay)

SpecWeek == InitWeek /\ [][NextWeek]_vars

----------------------------------------------------------------------------
(* Specification SpecStreak: the streak walkers on histories of every shape:  *)
(* a run of qualifying days that ends today or yesterday, the day before the *)
(* run absent or without points, and more qualifying days before that.       *)

StreakToday == MaxStreakRun + 4

StreakHistory(a, g, zero, b, flags) ==
    {MkRow(1, d, flags, 20, 0) : d \in (StreakToday - g - a + 1)..(StreakToday - g)}
        \cup {MkRow(1, d, AllZero, 0, 0) : d \in {e \in {StreakToday - g - a} : zero}}
        \cup {MkRow(1, d, flags, 20, 0) :
                d \in (StreakToday - g - a - b)..(StreakToday - g - a - 1)}

InitStreak ==
    /\ now = StreakToday
    /\ hour = 10
    /\ revision \in {"v1", "v2"}
    /\ \E a \in 0..MaxStreakRun, g \in {0, 1}, zero \in BOOLEAN, b \in 0..2,
          flags \in {AllOnes, OnlyTask9} :
          /\ daily_progress = StreakHistory(a, g, zero, b, flags)
          /\ users = [u \in UserIds |->
                IF u = 1
                THEN [ApprovedUser EXCEPT !.achievements =
                        TC2_currentAchievements(daily_progress, StreakToday - g)]
                ELSE NoUser]
    /\ reqs = [r \in ReqIds |-> Idle]
    /\ last = NoAnswer
    /\ out = NoOut
    /\ odd = 0

NextStreak == out = NoOut /\ ReadStreaks(1)

SpecStreak == InitStreak /\ [][NextStreak]_vars

----------------------------------------------------------------------------
(* User controller: the profile and the achievement progress *)

(* the dates of the rows with total_points > 0, in ascending order *)
RECURSIVE DatesAscending(_)
DatesAscending(D) ==
    IF D = {} THEN << >>
    ELSE LET d == CHOOSE x \in D : \A y \in D : x <= y
         IN  <<d>> \o DatesAscending(D \ {d})

RECURSIVE CU_longestLoop(_, _, _, _)
CU_longestLoop(data, i, currentStreak, longestStreak) ==
    IF i > Len(data) THEN longestStreak
    ELSE IF data[i] - data[i - 1] = 1
         THEN CU_longestLoop(data, i + 1, currentStreak + 1,
                             Max(longestStreak, currentStreak + 1))
         ELSE CU_longestLoop(data, i + 1, 1, longestStreak)

(* a longest streak that counts the steps from one day to the next *)
calculateLongestStreak_countsSteps(table, u) ==
    LET data == DatesAscending({r.date : r \in {x \in RowsOf(table, u) : x.total_points > 0}})
    IN  IF Len(data) = 0 THEN 0 ELSE CU_longestLoop(data, 2, 0, 0)

calculateLongestStreak(table, u) ==
    LET data == DatesAscending({r.date : r \in {x \in RowsOf(table, u) : x.total_points > 0}})
    IN  IF Len(data) = 0 THEN 0 ELSE CU_longestLoop(data, 2, 1, 1)

(* getUserRank: the place in user_statistics ordered by total_points, or 0 *)
getUserRank(tbl_users, table, u) ==
    LET data == OrderBy(ViewUsers(tbl_users), table, 0, OrderField("all", "overall"))
        userIndex == {i \in 1..Len(data) : data[i] = u}
    IN  IF userIndex = {} THEN 0 ELSE CHOOSE i \in userIndex : TRUE

(* achievement.completed of an entry of the progress *)
Completed(achievement) ==
    "completed" \in DOMAIN achievement /\ achievement["completed"]

(* achievementProgress.filter(a => a.completed).map(a => a.id) *)
earnedAchievements(achievementProgress) ==
    {achievement.id : achievement \in {a \in achievementProgress : Completed(a)}}

(* GET /api/users/:userId *)
getUserProfile(u) ==
    LET achievementProgress == AS_getAchievementProgress(users, daily_progress, u, Today)
    IN  /\ out.op # "profile"
        /\ out' = IF ~InView(u)
                  THEN [op |-> "profile", tg_id |-> u, today |-> Today, status |-> "404"]
                  ELSE [op |-> "profile", tg_id |-> u, today |-> Today, status |-> "ok",
                        achievements |-> earnedAchievements(achievementProgress),
                        achievementProgress |-> achievementProgress,
                        totalPoints |-> user_statistics(daily_progress, u, Today,
                                                        OrderField("all", "overall")),
                        streak |-> calculateUserStreak(daily_progress, u, Today),
                        longestStreak |-> calculateLongestStreak(daily_progress, u),
                        rank |-> getUserRank(users, daily_progress, u)]
        /\ UNCHANGED <<now, hour, revision, users, daily_progress, reqs, last, odd>>

(* GET /api/users/:userId/achievements/progress *)
getAchievementProgress(u) ==
    LET progress == AS_getAchievementProgress(users, daily_progress, u, Today)
    IN  /\ out.op # "achievement_progress"
        /\ out' = [op |-> "achievement_progress", tg_id |-> u, today |-> Today,
                   status |-> "ok", data |-> progress,
                   total_achievements |-> Cardinality(progress),
                   completed_achievements |->
                       Cardinality({a \in progress : Completed(a)})]
        /\ UNCHANGED <<now, hour, revision, users, daily_progress, reqs, last, odd>>

----------------------------------------------------------------------------
(* Specification SpecProgress: the profile and the achievement progress of   *)
(* one user on histories of every shape: a run of days that ends tomorrow    *)
(* (a date stored ahead of the server's), today or yesterday, with a day     *)
(* without points and an older run before it; and three days of pages and    *)
(* distances around the thresholds.  A second user has one row.              *)

MaxProgressRun == 32
ProgressToday == MaxProgressRun + 8

ProgressRuns == 0..2 \cup 20..22 \cup 30..MaxProgressRun

RunHistory(a, g, zero, b, flags) ==
    {MkRow(1, d, flags, 20, 0) : d \in (ProgressToday - g - a + 1)..(ProgressToday - g)}
        \cup {MkRow(1, d, AllZero, 0, 0) : d \in {e \in {ProgressToday - g - a} : zero}}
        \cup {MkRow(1, d, flags, 20, 0) :
                d \in (ProgressToday - g - a - b)..(ProgressToday - g - a - 1)}

PagesRuns == {<<0, 0, 0>>, <<5999, 0, 0>>, <<6000, 0, 0>>, <<3000, 2000, 1000>>,
              <<MaxPagesRead, 0, 0>>}

DistanceRuns == {<<0, 0, 0>>, <<Km(100), 0, 0>>, <<9999, 0, 0>>, <<Km(50), Km(50), 0>>,
                 <<3036, 4012, 2952>>, <<2952, 4012, 3036>>, <<3036, 4012, 2951>>,
                 <<Km(MaxDistanceKm), 0, 0>>}

(* three days, the newest first *)
SumHistory(pages, distances) ==
    {MkRow(1, ProgressToday - i + 1, OnlyTask9, pages[i], distances[i]) : i \in 1..3}

ProgressHistories ==
    {RunHistory(a, g, zero, b, flags) :
        a \in ProgressRuns, g \in {-1, 0, 1}, zero \in BOOLEAN, b \in {0, 1, 3},
        flags \in {AllOnes, OnlyTask9, FirstFlags(1)}}
      \cup {SumHistory(pages, distances) : pages \in PagesRuns, distances \in DistanceRuns}

InitProgress ==
    /\ now = ProgressToday
    /\ hour = 10
    /\ revision = "v2"
    /\ \E H \in ProgressHistories, evaluated \in BOOLEAN :
          /\ daily_progress = H \cup {MkRow(3, ProgressToday, AllOnes, 0, 0)}
          /\ users = [u \in UserIds |->
                CASE u = 1 -> [ApprovedUser EXCEPT !.achievements =
                                 IF evaluated
                                 THEN AS_earnedNew({}, getUserProgressHistory(
                                          H, 1, ProgressToday, AS_HistoryDays), ProgressToday)
                                 ELSE {}]
                  [] u = 3 -> ApprovedUser
                  [] OTHER -> NoUser]
    /\ reqs = [r \in ReqIds |-> Idle]
    /\ last = NoAnswer
    /\ out = NoOut
    /\ odd = 0

NextProgress ==
    \/ \E u \in UserIds : getUserProfile(u)
    \/ \E u \in UserIds : getAchievementProgress(u)

SpecProgress == InitProgress /\ [][NextProgress]_vars

----------------------------------------------------------------------------
(* Specification SpecConc: two requests in flight at once.  Every await of a  *)
(* handler is a step of its own: the upsert, the evaluation's history query,  *)
(* its query of the user's achievements and its update of them.               *)

Request(pc, kind, u, date, body, status, H, existing, earned, wrote) ==
    [pc |-> pc, kind |-> kind, tg_id |-> u, date |-> date, body |-> body,
     status |-> status, H |-> H, existing |-> existing, earned |-> earned,
     wrote |-> wrote, met |-> {}]

Done(q, wrote) == [q EXCEPT !.pc = "done", !.wrote = wrote]

ConcBodies == {MkBody(AllZero, ReaderThreshold, 0), MkBody(OnlyTask9, 0, Km(AthleteThresholdKm))}

(* POST /api/tasks/submit up to the upsert: validation and the user check *)
StartSubmit(r, u, body, header) ==
    LET date == SubmitDate(revision, header)
        status == SubmitStatus(users, u, body, progressData(u, date, body))
    IN  /\ reqs[r] = Idle
        /\ reqs' = [reqs EXCEPT ![r] =
              Request(IF status = "ok" THEN "upsert" ELSE "done", "submit", u, date, body,
                      status, {}, {}, {}, {})]
        /\ UNCHANGED <<now, hour, revision, users, daily_progress, last, out, odd>>

(* the upsert; the answer is sent and the evaluation started, not awaited.    *)
(* met keeps which other submissions were waiting for their own upsert then. *)
(* A row the table does not take (23503, no such user) ends the request.     *)
Upsert(r) ==
    LET data == progressData(reqs[r].tg_id, reqs[r].date, reqs[r].body)
    IN  /\ reqs[r].pc = "upsert"
        /\ IF RowAccepted(users, data)
           THEN /\ daily_progress' = upsertDailyProgress(daily_progress, data)
                /\ reqs' = [reqs EXCEPT
                      ![r].pc = "history",
                      ![r].met = {q \in ReqIds : reqs[q] # Idle /\ reqs[q].pc = "upsert"}
                                     \ {r}]
           ELSE /\ daily_progress' = daily_progress
                /\ reqs' = [reqs EXCEPT ![r].pc = "done", ![r].status = "400"]
        /\ UNCHANGED <<now, hour, revision, users, last, out, odd>>

(* updateUserAchievements of the task controller: the history query and the  *)
(* rules; nothing earned ends the evaluation                                 *)
EvalHistory(r) ==
    LET H == TC_history(revision, daily_progress, reqs[r].tg_id)
        earned == TC_earned(revision, H, Today)
    IN  /\ reqs[r].pc = "history"
        /\ reqs' = [reqs EXCEPT ![r] =
              IF earned = {} THEN Done(@, {})
              ELSE [@ EXCEPT !.pc = "user", !.H = H, !.earned = earned]]
        /\ UNCHANGED <<now, hour, revision, users, daily_progress, last, out, odd>>

(* the query of the user's achievements and the merge *)
EvalUser(r) ==
    LET existing == users[reqs[r].tg_id].achievements
    IN  /\ reqs[r].pc = "user"
        /\ reqs' = [reqs EXCEPT ![r] =
              IF TC_writes(existing, reqs[r].earned)
              THEN [@ EXCEPT !.pc = "write", !.existing = existing]
              ELSE Done(@, {})]
        /\ UNCHANGED <<now, hour, revision, users, daily_progress, last, out, odd>>

(* the update of the user's achievements with the merged list *)
EvalWrite(r) ==
    LET all == TC_allAchievements(reqs[r].existing, reqs[r].earned)
    IN  /\ reqs[r].pc = "write"
        /\ users' = SetAchievements(users, reqs[r].tg_id, all)
        /\ reqs' = [reqs EXCEPT ![r] = Done(@, all)]
        /\ UNCHANGED <<now, hour, revision, daily_progress, last, out, odd>>

(* POST /api/users/:userId/debug/update-achievements: the history query of   *)
(* AchievementService.updateUserAchievements                                 *)
StartForce(r, u) ==
    /\ reqs[r] = Idle
    /\ reqs' = [reqs EXCEPT ![r] =
          Request("as_user", "force", u, Today, RoutineBody, "ok",
                  getUserProgressHistory(daily_progress, u, Today, AS_HistoryDays),
                  {}, {}, {})]
    /\ UNCHANGED <<now, hour, revision, users, daily_progress, last, out, odd>>

(* its query of the user and the checks of what the user does not hold *)
ForceUser(r) ==
    LET u == reqs[r].tg_id
        current == users[u].achievements
        earnedNew == AS_earnedNew(current, reqs[r].H, Today)
    IN  /\ reqs[r].pc = "as_user"
        /\ reqs' = [reqs EXCEPT ![r] =
              IF users[u].exists /\ earnedNew # {}
              THEN [@ EXCEPT !.pc = "as_write", !.existing = current, !.earned = earnedNew]
              ELSE Done(@, {})]
        /\ UNCHANGED <<now, hour, revision, users, daily_progress, last, out, odd>>

(* DatabaseService.updateUserAchievements with the list it built *)
ForceWrite(r) ==
    LET all == reqs[r].existing \cup reqs[r].earned
    IN  /\ reqs[r].pc = "as_write"
        /\ users' = SetAchievements(users, reqs[r].tg_id, all)
        /\ reqs' = [reqs EXCEPT ![r] = Done(@, all)]
        /\ UNCHANGED <<now, hour, revision, daily_progress, last, out, odd>>

NextConc ==
    \/ \E r \in ReqIds, u \in UserIds, body \in ConcBodies, header \in Headers :
          StartSubmit(r, u, body, header)
    \/ \E r \in ReqIds : Upsert(r)
    \/ \E r \in ReqIds : EvalHistory(r)
    \/ \E r \in ReqIds : EvalUser(r)
    \/ \E r \in ReqIds : EvalWrite(r)
    \/ \E r \in ReqIds, u \in UserIds : StartForce(r, u)
    \/ \E r \in ReqIds : ForceUser(r)
    \/ \E r \in ReqIds : ForceWrite(r)
    \/ TickEvening

SpecConc == InitShort /\ [][NextConc]_vars

----------------------------------------------------------------------------
(* Registration and approval *)

AuthIds == {1, 2}

AuthAnswer(op, u, status) ==
    Answer(op, u, Today, Today, status, RoutineBody, NoRow, FALSE, "none", {}, {})

(* POST /auth/register: a name that is not a first and a last name is refused, a tg_id that is *)
(* in the table too, and the new row waits for approval                      *)
registerUser(u, nameOk) ==
    LET status == IF ~nameOk THEN "400"
                  ELSE IF users[u].exists THEN "409"
                  ELSE "201"
    IN  /\ users' = IF status = "201" THEN [users EXCEPT ![u] = PendingUser] ELSE users
        /\ last' = AuthAnswer("register", u, status)
        /\ UNCHANGED daily_progress

(* an approval without the filter on is_approved *)
approveUser_anyUser(u) ==
    LET found == users[u].exists
    IN  /\ users' = IF found THEN [users EXCEPT ![u].is_approved = TRUE] ELSE users
        /\ last' = AuthAnswer("approve", u, IF found THEN "ok" ELSE "404")
        /\ UNCHANGED daily_progress

(* POST /auth/approve/:tg_id: update ... where is_registered and not         *)
(* is_approved; every row of users is registered                             *)
approveUser(u) ==
    LET found == users[u].exists /\ ~users[u].is_approved
    IN  /\ users' = IF found THEN [users EXCEPT ![u].is_approved = TRUE] ELSE users
        /\ last' = AuthAnswer("approve", u, IF found THEN "ok" ELSE "404")
        /\ UNCHANGED daily_progress

(* a rejection without the filter on is_approved *)
rejectUser_anyUser(u) ==
    LET found == users[u].exists
    IN  /\ users' = IF found THEN [users EXCEPT ![u] = NoUser] ELSE users
        /\ daily_progress' = IF found THEN {r \in daily_progress : r.tg_id # u}
                              ELSE daily_progress
        /\ last' = AuthAnswer("reject", u, IF found THEN "ok" ELSE "404")

(* POST /auth/reject/:tg_id: delete ... where not is_approved; the rows of   *)
(* daily_progress go with their user (ON DELETE CASCADE)                     *)
rejectUser(u) ==
    LET found == users[u].exists /\ ~users[u].is_approved
    IN  /\ users' = IF found THEN [users EXCEPT ![u] = NoUser] ELSE users
        /\ daily_progress' = IF found THEN {r \in daily_progress : r.tg_id # u}
                              ELSE daily_progress
        /\ last' = AuthAnswer("reject", u, IF found THEN "ok" ELSE "404")

(* one call of the three; odd counts the calls *)
AuthCall(maxCalls) ==
    /\ odd < maxCalls
    /\ odd' = odd + 1
    /\ \E u \in AuthIds :
          \/ \E nameOk \in BOOLEAN : registerUser(u, nameOk)
          \/ approveUser(u)
          \/ rejectUser(u)
    /\ out' = NoOut
    /\ UNCHANGED <<now, hour, revision, reqs>>

----------------------------------------------------------------------------
(* Specification SpecApproval: nobody is registered.  Up to MaxAuthCalls     *)
(* calls of register, approve and reject for two ids, and two submissions    *)
(* whose check of the user and whose upsert are steps of their own.          *)

MaxAuthCalls == 5

InitApproval ==
    /\ now = 1
    /\ hour = 10
    /\ revision = "v2"
    /\ users = [u \in UserIds |-> NoUser]
    /\ daily_progress = {}
    /\ reqs = [r \in ReqIds |-> Idle]
    /\ last = NoAnswer
    /\ out = NoOut
    /\ odd = 0

NextApproval ==
    \/ AuthCall(MaxAuthCalls)
    \/ \E r \in ReqIds, u \in AuthIds : StartSubmit(r, u, RoutineBody, NoTz)
    \/ \E r \in ReqIds : Upsert(r)
    \/ \E r \in ReqIds : EvalHistory(r)

SpecApproval == InitApproval /\ [][NextApproval]_vars

----------------------------------------------------------------------------
(* What the claims speak of, stated on the table itself *)

OnesOf(r) == Cardinality({i \in TaskIdx : r.flags[i] = 1})

(* the row a body should leave behind *)
ExpectedRow(u, date, body) ==
    LET f == [i \in TaskIdx |-> IF body.flags[i] = << >> THEN 0 ELSE body.flags[i][1]]
    IN  [tg_id |-> u, date |-> date, flags |-> f,
         pages_read |-> IF body.pages_read = << >> THEN 0 ELSE body.pages_read[1],
         distance |-> IF body.distance = << >> THEN 0 ELSE body.distance[1],
         total_points |-> Cardinality({i \in TaskIdx : f[i] = 1})]

RowsAt(u, date) == {r \in daily_progress : r.tg_id = u /\ r.date = date}

DayHolds(kind, r) ==
    \/ kind = "consistent" /\ OnesOf(r) > 0
    \/ kind = "early_bird" /\ r.flags[9] = 1
    \/ kind = "perfectionist" /\ OnesOf(r) = NumTasks

DayQualifies(u, kind, date) == \E r \in RowsAt(u, date) : DayHolds(kind, r)

(* the days today, today-1, ... today-k+1 all qualify *)
StreakAtLeast(u, kind, today, k) ==
    \A j \in 0..(k - 1) : DayQualifies(u, kind, today - j)

(* the number of consecutive qualifying days that end today *)
StreakEndingToday(u, kind, today) ==
    CHOOSE k \in 0..(today + 1) :
        StreakAtLeast(u, kind, today, k) /\ ~DayQualifies(u, kind, today - k)

RECURSIVE PagesUpTo(_, _)
PagesUpTo(u, d) ==
    IF d < 0 THEN 0
    ELSE PagesUpTo(u, d - 1)
           + (IF RowsAt(u, d) = {} THEN 0 ELSE (CHOOSE r \in RowsAt(u, d) : TRUE).pages_read)

RECURSIVE DistanceUpTo(_, _)
DistanceUpTo(u, d) ==
    IF d < 0 THEN 0
    ELSE DistanceUpTo(u, d - 1)
           + (IF RowsAt(u, d) = {} THEN 0 ELSE (CHOOSE r \in RowsAt(u, d) : TRUE).distance)

TotalPages(u) == PagesUpTo(u, now + 1)
TotalDistance(u) == DistanceUpTo(u, now + 1)

Stored == last.op = "submit" /\ last.status = "ok"
Evaluated == (Stored \/ last.op = "force") /\ last.evaluated

----------------------------------------------------------------------------
(* C1: the table holds at most one row per (user, date), and after a          *)
(* successful submission the row of its (user, date) carries the ten flags,   *)
(* pagesRead and distanceKm of that submission and nothing of an earlier one. *)
C1_OneRowLastWriteWins ==
    /\ \A r, q \in daily_progress : (r.tg_id = q.tg_id /\ r.date = q.date) => r = q
    /\ Stored => RowsAt(last.tg_id, last.date)
                    = {ExpectedRow(last.tg_id, last.date, last.body)}

(* a second submission for the same day whose flags, pages and distance all   *)
(* differ from the first                                                      *)
C1_Witness ==
    /\ Stored
    /\ Found(last.prev)
    /\ last.prev.flags # ExpectedRow(last.tg_id, last.date, last.body).flags
    /\ last.prev.pages_read # ExpectedRow(last.tg_id, last.date, last.body).pages_read
    /\ last.prev.distance # ExpectedRow(last.tg_id, last.date, last.body).distance
    /\ last.prev.pages_read > 0

(* C2: every stored row has each of its ten flags in {0,1} and total_points    *)
(* equal to the number of flags set, between 0 and 10.                        *)
C2_TotalPoints ==
    \A r \in daily_progress :
        /\ \A i \in TaskIdx : r.flags[i] \in {0, 1}
        /\ r.total_points = OnesOf(r)
        /\ r.total_points \in 0..NumTasks

(* a row with some flags set and some not, and a submission with a flag of 2   *)
(* turned away                                                                 *)
C2_Witness ==
    /\ \E r \in daily_progress : r.total_points = 5
    /\ last.op = "submit" /\ last.status = "400"
    /\ \E i \in TaskIdx : last.body.flags[i] = <<2>>

RoutineRun(u, k) ==
    RowsOf(daily_progress, u) =
        {ExpectedRow(u, d, RoutineBody) : d \in (last.today - k + 1)..last.today}

C9_WholeHistory ==
    (Evaluated /\ "reader" \notin last.before
        /\ TotalPages(last.tg_id) >= ReaderThreshold)
    => "reader" \in last.earned

(* C10: an evaluation earns a streak achievement not yet held if and only if  *)
(* the streak of its predicate ending today is at least 21.                   *)
C10_StreakIffThreshold ==
    Evaluated =>
        \A a \in {"consistent", "perfectionist", "early_bird"} :
            a \notin last.before =>
                (a \in last.earned
                    <=> StreakAtLeast(last.tg_id, a, last.today, StreakThreshold))

(* the same, for the second revision of the task controller and for the       *)
(* achievement service                                                        *)
C10_SecondRevision ==
    (revision = "v2" \/ last.op = "force") => C10_StreakIffThreshold

AllDone == \A r \in ReqIds : reqs[r] # Idle /\ reqs[r].pc = "done"

(* C6: once two evaluations for the same user that ran at the same time have  *)
(* both finished, every id that either of them persisted is in the user's     *)
(* achievements.                                                              *)
C6_GrowsUnderConcurrency ==
    AllDone =>
        \A r \in ReqIds : reqs[r].wrote \subseteq users[reqs[r].tg_id].achievements

(* C7: once two submissions that ran at the same time have both been stored,  *)
(* each (user, date) they wrote holds exactly one row, and that row is the    *)
(* row of one of the submissions for that key in full.                        *)
C7_OnePayloadInFull ==
    LET subs == {r \in ReqIds : reqs[r] # Idle /\ reqs[r].kind = "submit"
                                 /\ reqs[r].status = "ok"
                                 /\ reqs[r].pc \notin {"upsert"}}
    IN  \A r \in subs :
            \E q \in subs :
                /\ reqs[q].tg_id = reqs[r].tg_id
                /\ reqs[q].date = reqs[r].date
                /\ RowsAt(reqs[r].tg_id, reqs[r].date)
                      = {ExpectedRow(reqs[q].tg_id, reqs[q].date, reqs[q].body)}

(* two submissions for one (user, date) with different bodies were in flight  *)
(* together and both have been stored                                         *)
C7_Witness ==
    /\ AllDone
    /\ \A r \in ReqIds : reqs[r].kind = "submit" /\ reqs[r].status = "ok"
    /\ reqs[1].tg_id = reqs[2].tg_id
    /\ reqs[1].date = reqs[2].date
    /\ reqs[1].body # reqs[2].body
    /\ \E r \in ReqIds : reqs[r].met # {}

(* the rule of an achievement on the user's rows, as the catalogue states it *)
RuleHolds(u, a, today) ==
    CASE a = "reader" -> TotalPages(u) >= ReaderThreshold
      [] a = "athlete" -> TotalDistance(u) >= Km(AthleteThresholdKm)
      [] OTHER -> StreakAtLeast(u, a, today, StreakThreshold)

(* C11: a force update returns exactly the ids the user did not hold and      *)
(* whose rule holds on the history, and leaves the persisted set equal to the *)
(* previous set united with the returned ids; a second force update on the    *)
(* same day with unchanged rows returns nothing and changes nothing.          *)
C11_ReturnsNewlyEarned ==
    [][(last' # last /\ last'.op = "force" /\ last'.evaluated) =>
          /\ last'.earned =
                {a \in AchievementIds :
                    a \notin last'.before /\ RuleHolds(last'.tg_id, a, last'.today)}
          /\ daily_progress' = daily_progress
          /\ last'.before = users[last'.tg_id].achievements
          /\ users'[last'.tg_id].achievements = last'.before \cup last'.earned
          /\ (last.op = "force" /\ last.tg_id = last'.tg_id /\ last.today = last'.today)
             => (last'.earned = {} /\ users' = users)]_vars

(* a force update for a user who holds an id already earns another one *)
C11_Witness ==
    /\ last.op = "force" /\ last.evaluated
    /\ last.before # {}
    /\ last.earned # {}
    /\ users[last.tg_id].achievements = last.before \cup last.earned


----------------------------------------------------------------------------
(* C12: a failure inside the achievement evaluation never fails the           *)
(* submission that started it.  Whatever query or update of the evaluation    *)
(* does not answer, a valid submission of an approved user answers success    *)
(* and its row is stored; and an evaluation of the achievement service that   *)
(* meets a failure answers without an error, returns no id and leaves every   *)
(* user's set as it was.                                                      *)
Acceptable(body) ==
    /\ \A i \in TaskIdx : body.flags[i] = << >> \/ body.flags[i][1] \in {0, 1}
    /\ body.pages_read = << >> \/ body.pages_read[1] \in 0..MaxPagesRead
    /\ body.distance = << >> \/ body.distance[1] \in 0..Km(MaxDistanceKm)

C12_WitnessService ==
    /\ last.op = "force" /\ last.fault = "write"
    /\ TotalPages(last.tg_id) >= ReaderThreshold
    /\ "reader" \notin users[last.tg_id].achievements


----------------------------------------------------------------------------
(* C13: a submission with a flag outside {0,1}, a negative or too large       *)
(* pages_read or distance_km, an id nobody registered, or a user who is not   *)
(* approved is answered with an error and leaves daily_progress as it was,    *)
(* the row already stored for that user and day included; pages_read = 10000  *)
(* and distance_km = 1000 are accepted and stored.                            *)
Refused(u, body) ==
    \/ \E i \in TaskIdx : body.flags[i] # << >> /\ body.flags[i][1] \notin {0, 1}
    \/ body.pages_read # << >> /\ (body.pages_read[1] < 0 \/ body.pages_read[1] > MaxPagesRead)
    \/ body.distance # << >> /\ (body.distance[1] < 0 \/ body.distance[1] > Km(MaxDistanceKm))
    \/ ~users[u].exists
    \/ ~users[u].is_approved

C13_RejectedLeavesStore ==
    [][(odd' # odd /\ last'.op = "submit") =>
          /\ Refused(last'.tg_id, last'.body)
                => /\ last'.status \in {"400", "403", "404"}
                   /\ daily_progress' = daily_progress
                   /\ users' = users
          /\ (last'.body = LimitBody /\ ~Refused(last'.tg_id, LimitBody))
                => /\ last'.status = "ok"
                   /\ \E r \in daily_progress' :
                         /\ r.tg_id = last'.tg_id /\ r.date = last'.date
                         /\ r.pages_read = MaxPagesRead
                         /\ r.distance = Km(MaxDistanceKm)]_vars

(* a refused submission for a day that already has a row, which is still      *)
(* the row of that day                                                         *)
C13_Witness ==
    /\ last.op = "submit" /\ last.status = "400"
    /\ Found(last.prev)
    /\ RowsAt(last.tg_id, last.date) = {last.prev}
    /\ last.prev.pages_read = MaxPagesRead


----------------------------------------------------------------------------
(* The leaderboard claims read the answer in out against the tables. *)

Board == out.op = "leaderboard"

(* a user's score for a period and a metric as the view defines it *)
ScoreOf(u, period, type, today) ==
    LET H == {r \in daily_progress :
                 /\ r.tg_id = u
                 /\ CASE period = "daily" -> r.date = today
                      [] period = "weekly" -> r.date \in (today - 6)..today
                      [] OTHER -> TRUE}
    IN  CASE type = "reading" -> SumField(H, "pages_read")
          [] type = "distance" -> SumField(H, "distance")
          [] OTHER -> SumField(H, "total_points")

Approved(u) == u \in DOMAIN users /\ users[u].exists /\ users[u].is_approved

Eligible(period, type, today) ==
    {u \in DOMAIN users : Approved(u) /\ ScoreOf(u, period, type, today) > 0}

Listed == {out.leaderboard[i].tg_id : i \in 1..Len(out.leaderboard)}

(* C14: for every period and metric the entries are sorted by score          *)
(* descending, equal scores by ascending user id, and their ranks are        *)
(* 1, 2, ..., n in that order without gap or duplicate.                       *)
C14_SortedDenseRanks ==
    Board =>
        LET L == out.leaderboard
        IN  /\ \A i \in 1..Len(L) :
                  /\ L[i].rank = i
                  /\ L[i].score = ScoreOf(L[i].tg_id, out.period, out.type, out.today)
            /\ \A i, j \in 1..Len(L) :
                  i < j => \/ L[i].score > L[j].score
                           \/ L[i].score = L[j].score /\ L[i].tg_id < L[j].tg_id

(* pages 50, 50, 30 of users 7, 3, 9: user 3 first, then 7, then 9 *)
C14_Witness ==
    /\ Board /\ out.period = "all" /\ out.type = "reading"
    /\ out.leaderboard = <<[rank |-> 1, tg_id |-> 3, score |-> 50],
                           [rank |-> 2, tg_id |-> 7, score |-> 50],
                           [rank |-> 3, tg_id |-> 9, score |-> 30]>>

(* C15: a user whose score for the requested period and metric is 0, and a   *)
(* user who is not approved, is never among the entries and is not counted   *)
(* in total_participants, whatever their other scores.                        *)
C15_ZeroAndUnapprovedExcluded ==
    Board =>
        /\ \A u \in DOMAIN users :
              (ScoreOf(u, out.period, out.type, out.today) = 0 \/ ~Approved(u))
                 => u \notin Listed
        /\ out.total_participants
              = Cardinality({u \in DOMAIN users :
                               /\ Approved(u)
                               /\ ScoreOf(u, out.period, out.type, out.today) # 0})

(* a list with entries, asked for while an approved user has points but no   *)
(* distance and a user whose approval was withdrawn has distance              *)
C15_Witness ==
    /\ Board /\ out.type = "distance" /\ out.period = "all"
    /\ Listed # {}
    /\ \E u \in DOMAIN users :
          /\ Approved(u)
          /\ ScoreOf(u, "all", "distance", out.today) = 0
          /\ ScoreOf(u, "all", "overall", out.today) > 0
    /\ \E u \in DOMAIN users :
          /\ users[u].exists /\ ~users[u].is_approved
          /\ ScoreOf(u, "all", "distance", out.today) > 0

Focus == out.tg_id[1]

StrictlyAbove(u) ==
    {v \in Eligible(out.period, out.type, out.today) :
        ScoreOf(v, out.period, out.type, out.today)
           > ScoreOf(u, out.period, out.type, out.today)}

(* C16: an eligible focus user outside the returned entries gets a separate  *)
(* entry flagged as outside the list, with rank one plus the number of        *)
(* eligible users with a strictly greater score; a focus user inside the      *)
(* list gets their list entry flagged as inside.                              *)
C16_FocusUser ==
    (Board /\ out.tg_id # << >>
        /\ Focus \in Eligible(out.period, out.type, out.today)) =>
        IF Focus \in Listed
        THEN \E i \in 1..Len(out.leaderboard) :
                /\ out.leaderboard[i].tg_id = Focus
                /\ out.current_user =
                      [rank |-> i, tg_id |-> Focus,
                       score |-> out.leaderboard[i].score, in_top_list |-> TRUE]
        ELSE out.current_user =
                [rank |-> 1 + Cardinality(StrictlyAbove(Focus)), tg_id |-> Focus,
                 score |-> ScoreOf(Focus, out.period, out.type, out.today),
                 in_top_list |-> FALSE]

(* limit 1, five eligible users, the focus user third *)
C16_Witness ==
    /\ Board /\ out.limit = <<1>> /\ out.tg_id # << >>
    /\ Cardinality(Eligible(out.period, out.type, out.today)) = 5
    /\ Len(out.leaderboard) = 1
    /\ out.current_user # NoEntry
    /\ out.current_user.rank = 3
    /\ out.current_user.in_top_list = FALSE

(* a focus user who is the second entry of the list *)
C16_WitnessInside ==
    /\ Board /\ out.tg_id # << >>
    /\ out.current_user # NoEntry
    /\ out.current_user.in_top_list
    /\ out.current_user.rank = 2

(* the limit the query runs with: 100 for a limit that is not sent, is 0 or  *)
(* is no number, and never more than 500                                      *)
EffectiveLimit(limit) ==
    LET n == IF limit = << >> \/ limit[1] = 0 THEN 100 ELSE limit[1]
    IN  IF n > 500 THEN 500 ELSE n

C17_WitnessEmpty ==
    /\ Board /\ out.leaderboard = << >> /\ out.total_participants = 0
    /\ daily_progress # {}


(* a user's sum of a metric over the Monday-to-Sunday week of a day *)
WeekScore(u, type, today) ==
    LET week == getCurrentWeekData(today, 10, "UTC")
        H == {r \in daily_progress :
                 r.tg_id = u /\ r.date >= week.startDate /\ r.date <= week.endDate}
    IN  CASE type = "reading" -> SumField(H, "pages_read")
          [] type = "distance" -> SumField(H, "distance")
          [] OTHER -> SumField(H, "total_points")

(* C18: for period weekly a user's score is the sum of the metric over their *)
(* rows dated within the current Monday-to-Sunday week; a row dated before    *)
(* this week's Monday does not contribute, and the users listed are those     *)
(* with such a sum above 0.                                                    *)
C18_WeeklyIsCalendarWeek ==
    (Board /\ out.period = "weekly") =>
        /\ \A i \in 1..Len(out.leaderboard) :
              out.leaderboard[i].score
                 = WeekScore(out.leaderboard[i].tg_id, out.type, out.today)
        /\ out.total_participants
              = Cardinality({u \in DOMAIN users :
                               Approved(u) /\ WeekScore(u, out.type, out.today) > 0})

----------------------------------------------------------------------------
(* The claims about the statistics summary read the answer in out. *)

Stats == out.op = "statistics" /\ out.status = "ok"

PointsAt(u, date) ==
    IF \E r \in daily_progress : r.tg_id = u /\ r.date = date
    THEN (CHOOSE r \in daily_progress : r.tg_id = u /\ r.date = date).total_points
    ELSE 0

(* C19: the array of daily points of the statistics summary has exactly      *)
(* seven elements, each a number: seven zeros for a user without rows, seven  *)
(* elements for a user with a row on every day, and seven when the lookup of  *)
(* a day fails.                                                               *)
C19_SevenElements ==
    Stats =>
        /\ DOMAIN out.dailyPoints = 1..7
        /\ \A i \in 1..7 : out.dailyPoints[i] \in 0..NumTasks
        /\ {r \in daily_progress : r.tg_id = out.tg_id} = {}
              => \A i \in 1..7 : out.dailyPoints[i] = 0

(* a user with a row on each day of the week, and the lookup of Wednesday    *)
(* fails: seven elements, Wednesday's 0                                       *)
C19_Witness ==
    /\ Stats /\ out.controller = "week" /\ out.failed = {3} /\ ~out.thrown
    /\ out.timezone = "UTC"
    /\ \A i \in 1..7 : PointsAt(out.tg_id, getCurrentWeekData(now, hour, "UTC").weekDates[i]) > 0
    /\ out.dailyPoints[3] = 0
    /\ \A i \in (1..7) \ {3} : out.dailyPoints[i] > 0

(* a user without rows: seven zeros *)
C19_WitnessNew ==
    /\ Stats /\ out.failed = {} /\ ~out.thrown
    /\ {r \in daily_progress : r.tg_id = out.tg_id} = {}
    /\ out.dailyPoints = SevenZeros

(* the Monday of the week that holds a day *)
MondayOf(today) == CHOOSE m \in (today - 6)..today : m % 7 = 1

C20_WitnessNextWeek ==
    /\ Stats /\ out.controller = "week" /\ out.timezone = "Asia/Tashkent"
    /\ out.failed = {} /\ ~out.thrown
    /\ hour = 20 /\ now % 7 = 0
    /\ PointsAt(out.tg_id, now) > 0
    /\ out.dailyPoints = SevenZeros


----------------------------------------------------------------------------
(* C21: a timezone the runtime does not know never produces an error: the    *)
(* statistics summary and the weekly stats asked for with such a zone are     *)
(* answered with success and with the array of the default zone (UTC for      *)
(* these handlers), not with an error and not with zeros in the place of     *)
(* the user's points.                                                         *)
C21_UnknownZoneIsDefault ==
    (out.op \in {"statistics", "weekly_stats"} /\ out.controller = "week"
        /\ ~TzKnown(out.timezone) /\ InView(out.tg_id)
        /\ out.failed = {} /\ ~out.thrown) =>
        /\ out.status = "ok"
        /\ \A i \in 0..6 : out.dailyPoints[i + 1] = PointsAt(out.tg_id, MondayOf(now) + i)


----------------------------------------------------------------------------
(* C22: a leaderboard query whose period is not daily, weekly or all-time,    *)
(* or whose type is not overall, reading or distance, is rejected: no         *)
(* ranking is ever the answer to such a query.                                *)
C22_UnknownEnumRejected ==
    Board => /\ out.period \in {"daily", "weekly", "all", "all_time"}
             /\ out.type \in {"overall", "reading", "distance"}


----------------------------------------------------------------------------
Progress == out.op = "achievement_progress"
Profile == out.op = "profile" /\ out.status = "ok"

(* the history the service reads for the user of the answer *)
HistoryOfOut == getUserProgressHistory(daily_progress, out.tg_id, out.today, AS_HistoryDays)

(* C23: for each of the five achievements the progress entry has              *)
(* current = max exactly when the earning check holds on the same history at  *)
(* the same instant, and current is in 0..max.                                *)
C23_ProgressAgreesWithCheck ==
    Progress => \A e \in out.data :
        /\ e.current \in 0..e.max
        /\ (e.current = e.max) <=> AS_check(e.id, HistoryOfOut, out.today)

(* C25: the achievements of the profile, and the number of completed          *)
(* achievements of the progress answer, are the ids whose entry is earned,    *)
(* the persisted set.                                                         *)
C25_ListedIffEarned ==
    /\ Profile => out.achievements = users[out.tg_id].achievements
    /\ Progress =>
          out.completed_achievements = Cardinality({e \in out.data : e.earned})

(* C30: the longest streak of a profile is at least the current streak next   *)
(* to it, and both are 0 when the user has no row with total_points > 0.      *)
C30_LongestAtLeastCurrent ==
    Profile =>
        /\ out.longestStreak >= out.streak
        /\ (\A r \in RowsOf(daily_progress, out.tg_id) : r.total_points = 0)
              => out.streak = 0 /\ out.longestStreak = 0

(* a current streak at the end of the walk and a longer run that holds it *)
C30_Witness ==
    Profile /\ out.streak = CU_StreakDays /\ out.longestStreak = MaxProgressRun

(* a current streak of two days after an older run of three *)
C30_WitnessOlderRun == Profile /\ out.streak = 2 /\ out.longestStreak = 3

(* a user whose only row has no points *)
C30_WitnessNoPoints ==
    /\ Profile /\ out.streak = 0 /\ out.longestStreak = 0
    /\ RowsOf(daily_progress, out.tg_id) # {}


----------------------------------------------------------------------------
Approved24(tbl_users, u) == tbl_users[u].exists /\ tbl_users[u].is_approved

DatesOf(table, u) == {r.date : r \in RowsOf(table, u)}

(* C24: under register, approve and reject an approved user stays approved    *)
(* and keeps their records, so the flag goes from false to true at most once; *)
(* approving an approved or unknown user, and rejecting an approved one, is   *)
(* answered 404 and changes nothing.                                          *)
C24_ApprovalIsFinal ==
    [][/\ \A u \in UserIds : Approved24(users, u) =>
              /\ Approved24(users', u)
              /\ DatesOf(daily_progress, u) \subseteq DatesOf(daily_progress', u)
       /\ (odd' # odd /\ last'.op = "approve"
               /\ (~users[last'.tg_id].exists \/ users[last'.tg_id].is_approved)) =>
              /\ last'.status = "404"
              /\ users' = users /\ daily_progress' = daily_progress
       /\ (odd' # odd /\ last'.op = "reject" /\ Approved24(users, last'.tg_id)) =>
              /\ last'.status = "404"
              /\ users' = users /\ daily_progress' = daily_progress]_vars

(* an approved user with a record was rejected and is still there *)
C24_Witness ==
    /\ last.op = "reject" /\ last.status = "404"
    /\ Approved24(users, last.tg_id)
    /\ RowsOf(daily_progress, last.tg_id) # {}

(* an approved user was approved again *)
C24_WitnessApprove ==
    last.op = "approve" /\ last.status = "404" /\ Approved24(users, last.tg_id)

(* C27: each stored row of daily_progress belongs to a user that exists and   *)
(* is approved, also when the check of the user and the upsert are separate   *)
(* steps, and no step deletes or un-approves a user who has rows.             *)
C27_RowsBelongToApproved ==
    /\ [](\A r \in daily_progress : Approved24(users, r.tg_id))
    /\ [][\A u \in UserIds : RowsOf(daily_progress, u) # {} => Approved24(users', u)]_vars

(* a row was written by a submission while another one, for a user who was   *)
(* not approved when it was checked, was refused                             *)
C27_Witness ==
    /\ daily_progress # {}
    /\ \E r \in ReqIds : reqs[r] # Idle /\ reqs[r].status = "403"
    /\ \E r \in ReqIds : reqs[r] # Idle /\ reqs[r].status = "ok" /\ reqs[r].pc = "done"

(* a submission was refused for an id that was registered and rejected since *)
C27_WitnessUnknown ==
    \E r \in ReqIds : reqs[r] # Idle /\ reqs[r].status = "404" /\ last.op = "reject"
                          /\ last.status = "ok" /\ last.tg_id = reqs[r].tg_id


----------------------------------------------------------------------------
(* the row the last submission stored, while the instant is that of the       *)
(* submission's day                                                           *)
StoredWithPoints ==
    /\ last.op = "submit" /\ last.status = "ok" /\ last.today = Today
    /\ Found(Find(RowsOf(daily_progress, last.tg_id), last.date))
    /\ Find(RowsOf(daily_progress, last.tg_id), last.date).total_points > 0

(* C26: the date a submission is stored under is the date the streak walk     *)
(* treats as today: after a successful submission with at least one flag set  *)
(* the any-activity streak found at that instant is at least 1, whatever the  *)
(* submitter's timezone and the time of day.                                  *)
C26_StoredDateIsToday ==
    StoredWithPoints =>
        /\ last.date = Today
        /\ calculateUserStreak(daily_progress, last.tg_id, Today) >= 1
        /\ getConsistentStreak(
               getUserProgressHistory(daily_progress, last.tg_id, Today, AS_HistoryDays),
               Today) >= 1


----------------------------------------------------------------------------
(* the users that come before u when all eligible users are ordered by score *)
(* descending and id ascending                                               *)
Before(u) ==
    {v \in Eligible(out.period, out.type, out.today) :
        \/ ScoreOf(v, out.period, out.type, out.today)
              > ScoreOf(u, out.period, out.type, out.today)
        \/ /\ ScoreOf(v, out.period, out.type, out.today)
                 = ScoreOf(u, out.period, out.type, out.today)
           /\ v < u}

(* C28: the rank of a focus user does not depend on limit: it is their        *)
(* 1-based position under the order by score descending and id ascending,     *)
(* the rank they have inside the window, also when a smaller limit leaves     *)
(* them outside of it and other users have their score.                       *)
C28_RankIndependentOfLimit ==
    (Board /\ out.tg_id # << >> /\ out.current_user # NoEntry
        /\ Focus \in Eligible(out.period, out.type, out.today)) =>
        out.current_user.rank = 1 + Cardinality(Before(Focus))

(* C29: a focus entry has a rank between 1 and total_participants and a       *)
(* score above 0; a focus user whose score is 0 gets no entry.                *)
C29_FocusEntryIsRanked ==
    (Board /\ out.current_user # NoEntry) =>
        /\ out.current_user.rank \in 1..out.total_participants
        /\ out.current_user.score > 0

====
